---- MODULE Spec2Model ----
(***************************************************************************)
(* Contact-form endpoint: the rate limiter, the validation / spam pipeline *)
(* and the request handler that orchestrates them around the mail relay.   *)
(* Strings are sequences of one-character strings.  Time is Date.now() in  *)
(* milliseconds.                                                           *)
(***************************************************************************)
EXTENDS Integers, Sequences, FiniteSets, TLC

VARIABLES now, requests, slots, nextId, handled, ticks, email, loggerContext,
          admitted, ret, scenario, arg, result

vars == <<now, requests, slots, nextId, handled, ticks, email, loggerContext,
          admitted, ret, scenario, arg, result>>

(***************************************************************************)
(* Bounds of the model                                                     *)
(***************************************************************************)
MaxInFlight == 2
MaxHandled == 2
MaxBurst == 6
MaxTicks == 2
MaxCalls == 7
MaxFragments == 3
MaxPasses == 2

(***************************************************************************)
(* RateLimiter (validation.ts 122-153)                                     *)
(***************************************************************************)
maxRequests == 5
windowMs == 15 * 60 * 1000

Clients == {"10.0.0.1", "10.0.0.2"}

\* a filter that keeps the timestamp that is exactly one window old
RECURSIVE FilterSeqInclusive(_, _)
FilterSeqInclusive(s, windowStart) ==
  IF s = <<>> THEN <<>>
  ELSE IF Head(s) >= windowStart
       THEN <<Head(s)>> \o FilterSeqInclusive(Tail(s), windowStart)
       ELSE FilterSeqInclusive(Tail(s), windowStart)

\* Array.prototype.filter: the elements satisfying Test, order kept
RECURSIVE FilterSeq(_, _)
FilterSeq(s, windowStart) ==
  IF s = <<>> THEN <<>>
  ELSE IF Head(s) > windowStart
       THEN <<Head(s)>> \o FilterSeq(Tail(s), windowStart)
       ELSE FilterSeq(Tail(s), windowStart)

\* this.requests.get(identifier) || []
requestTimes(reqs, identifier) ==
  IF identifier \in DOMAIN reqs THEN reqs[identifier] ELSE <<>>

validRequests(reqs, identifier, t) ==
  FilterSeq(requestTimes(reqs, identifier), t - windowMs)

\* a limiter that refuses only from the seventh request on
isRateLimitedOffByOne(reqs, identifier, t) ==
  Len(validRequests(reqs, identifier, t)) > maxRequests

\* the value isRateLimited returns
isRateLimited(reqs, identifier, t) ==
  Len(validRequests(reqs, identifier, t)) >= maxRequests

\* a store that forgets the records of the other keys
MapSetAlone(m, k, v) == [x \in {k} |-> v]

\* Map.set: the map with key k bound to v
MapSet(m, k, v) ==
  [x \in (DOMAIN m) \cup {k} |-> IF x = k THEN v ELSE m[x]]

\* a limiter that stores the pruned record but not the current request
requestsAfterNoAppend(reqs, identifier, t) ==
  IF isRateLimited(reqs, identifier, t)
  THEN reqs
  ELSE MapSet(reqs, identifier, validRequests(reqs, identifier, t))

\* a limiter that stores the current request in place of the record
requestsAfterOnlyCurrent(reqs, identifier, t) ==
  IF isRateLimited(reqs, identifier, t)
  THEN reqs
  ELSE MapSet(reqs, identifier, <<t>>)

\* a limiter that records the refused requests as well
requestsAfterRecordsRejected(reqs, identifier, t) ==
  MapSet(reqs, identifier, Append(validRequests(reqs, identifier, t), t))

\* the map isRateLimited leaves behind
requestsAfter(reqs, identifier, t) ==
  IF isRateLimited(reqs, identifier, t)
  THEN reqs
  ELSE MapSet(reqs, identifier, Append(validRequests(reqs, identifier, t), t))

Max(a, b) == IF a >= b THEN a ELSE b

\* a remaining count taken from the stored record without pruning it
getRemainingRequestsNoPrune(reqs, identifier, t) ==
  Max(0, maxRequests - Len(requestTimes(reqs, identifier)))

getRemainingRequests(reqs, identifier, t) ==
  Max(0, maxRequests - Len(validRequests(reqs, identifier, t)))

(***************************************************************************)
(* Strings                                                                 *)
(***************************************************************************)
LowerSeq == <<"a","b","c","d","e","f","g","h","i","j","k","l","m",
              "n","o","p","q","r","s","t","u","v","w","x","y","z">>
UpperSeq == <<"A","B","C","D","E","F","G","H","I","J","K","L","M",
              "N","O","P","Q","R","S","T","U","V","W","X","Y","Z">>
Digits == {"0","1","2","3","4","5","6","7","8","9"}
Range(f) == {f[i] : i \in DOMAIN f}
LowerLetters == Range(LowerSeq)
UpperLetters == Range(UpperSeq)
Letters == LowerLetters \cup UpperLetters
\* \s of a JavaScript regular expression (the members that occur here)
Whitespace == {" ", "\t", "\n", "\r"}
LineTerminators == {"\n", "\r"}
\* \w of a JavaScript regular expression
WordChars == Letters \cup Digits \cup {"_"}
\* characters outside \x00-\x7F are written as their code point
NonAsciiLower == "U+00E9"
NonAsciiUpper == "U+00C9"
NonAscii == {NonAsciiLower, NonAsciiUpper, "U+4E2D"}

\* String.prototype.toLowerCase
ToLowerChar(c) ==
  IF c \in UpperLetters
  THEN LowerSeq[CHOOSE i \in DOMAIN UpperSeq : UpperSeq[i] = c]
  ELSE IF c = NonAsciiUpper THEN NonAsciiLower ELSE c
toLowerCase(s) == [i \in DOMAIN s |-> ToLowerChar(s[i])]

\* String.prototype.trim
RECURSIVE TrimLeft(_)
TrimLeft(s) ==
  IF s # <<>> /\ Head(s) \in Whitespace THEN TrimLeft(Tail(s)) ELSE s
RECURSIVE TrimRight(_)
TrimRight(s) ==
  IF s # <<>> /\ s[Len(s)] \in Whitespace
  THEN TrimRight(SubSeq(s, 1, Len(s) - 1)) ELSE s
trim(s) == TrimRight(TrimLeft(s))

\* String.prototype.split on a one-character separator
RECURSIVE Split(_, _)
Split(s, sep) ==
  IF \E i \in DOMAIN s : s[i] = sep
  THEN LET i == CHOOSE k \in DOMAIN s :
                  s[k] = sep /\ \A j \in 1..(k - 1) : s[j] # sep
       IN <<SubSeq(s, 1, i - 1)>> \o Split(SubSeq(s, i + 1, Len(s)), sep)
  ELSE <<s>>

\* w occurs in s starting at position i
OccursAt(s, w, i) ==
  /\ i >= 1
  /\ i + Len(w) - 1 <= Len(s)
  /\ \A k \in 1..Len(w) : s[i + k - 1] = w[k]

Contains(s, w) == \E i \in 1..Len(s) : OccursAt(s, w, i)

\* the maximal runs of non-whitespace characters of s, in order
RECURSIVE Words(_)
Words(s) ==
  LET t == TrimLeft(s) IN
  IF t = <<>> THEN <<>>
  ELSE IF \E i \in DOMAIN t : t[i] \in Whitespace
       THEN LET i == CHOOSE k \in DOMAIN t :
                       t[k] \in Whitespace /\ \A j \in 1..(k - 1) : t[j] \notin Whitespace
            IN <<SubSeq(t, 1, i - 1)>> \o Words(SubSeq(t, i + 1, Len(t)))
       ELSE <<t>>

\* first position >= i where w occurs in s, 0 when there is none
IndexFrom(s, w, i) ==
  IF \E k \in i..Len(s) : OccursAt(s, w, k)
  THEN CHOOSE k \in i..Len(s) :
         OccursAt(s, w, k) /\ \A j \in i..(k - 1) : ~OccursAt(s, w, j)
  ELSE 0

(***************************************************************************)
(* DOMPurify.sanitize as validation.ts uses it (lines 10, 87-90, 169-172): *)
(* the markup is tokenised, elements outside the allow-list are removed    *)
(* (their content kept, except for raw-text elements such as script),      *)
(* attributes outside the allow-list are removed, and the tree is          *)
(* serialised again.  A string without "<" is returned as it is.           *)
(***************************************************************************)
\* the part of DOMPurify's default allow-lists that the inputs here can name
DefaultAllowedTags ==
  {<<"a">>, <<"b">>, <<"b","r">>, <<"b","u","t","t","o","n">>, <<"d","i","v">>, <<"e","m">>, <<"i">>, <<"i","m","g">>, <<"p">>, <<"p","r","e">>, <<"s","p","a","n">>, <<"s","t","r","o","n","g">>, <<"u">>}
DefaultAllowedAttr == {<<"a","l","t">>, <<"c","l","a","s","s">>, <<"h","r","e","f">>, <<"i","d">>, <<"s","r","c">>, <<"t","i","t","l","e">>}
DefaultConfig == [tags |-> DefaultAllowedTags, attrs |-> DefaultAllowedAttr]
\* sanitizeHtml's configuration
HtmlConfig == [tags |-> {<<"p">>, <<"b","r">>, <<"s","t","r","o","n","g">>, <<"e","m">>, <<"u">>}, attrs |-> {}]
\* elements whose content is dropped with them
ForbidContents == {<<"s","c","r","i","p","t">>, <<"i","f","r","a","m","e">>}
VoidElements == {<<"b","r">>, <<"i","m","g">>}
Entities == {<<"&","a","m","p",";">>, <<"&","l","t",";">>, <<"&","g","t",";">>}

EscapeChar(c) ==
  IF c = "<" THEN <<"&","l","t",";">> ELSE IF c = ">" THEN <<"&","g","t",";">>
  ELSE IF c = "&" THEN <<"&","a","m","p",";">> ELSE <<c>>

\* the HTML parser's stack of open elements: the name of each element and
\* whether the sanitizer keeps it; the children of an element that is not kept
\* move up into its parent
Open(name, kept) == [name |-> name, kept |-> kept]
\* elements that bound the search for an open element ("in scope", "in button
\* scope"), and the start tags that close an open p element
ScopeMarkers == {<<"o","b","j","e","c","t">>, <<"t","a","b","l","e">>, <<"t","d">>, <<"t","h">>, <<"c","a","p","t","i","o","n">>, <<"m","a","r","q","u","e","e">>}
ButtonScopeMarkers == ScopeMarkers \cup {<<"b","u","t","t","o","n">>}
ClosesParagraph == {<<"p">>, <<"d","i","v">>, <<"p","r","e">>}
MarkersFor(name) == IF name = <<"p">> THEN ButtonScopeMarkers ELSE ScopeMarkers
\* position of the innermost open element called name that is in scope, or 0
OpenInScope(stack, name) ==
  LET ks == {k \in DOMAIN stack :
               /\ stack[k].name = name
               /\ \A m \in (k + 1)..Len(stack) :
                    stack[m].name # name /\ stack[m].name \notin MarkersFor(name)}
  IN IF ks = {} THEN 0 ELSE CHOOSE k \in ks : TRUE

\* closing tags of the open elements that are kept, innermost first
RECURSIVE CloseAll(_)
CloseAll(stack) ==
  IF stack = <<>> THEN <<>>
  ELSE (IF stack[Len(stack)].kept
        THEN <<"<","/">> \o stack[Len(stack)].name \o <<">">> ELSE <<>>)
       \o CloseAll(SubSeq(stack, 1, Len(stack) - 1))

\* one attribute word: name, name=value or name="value"
AttrName(w) == toLowerCase(Split(w, "=")[1])
AttrValue(w) ==
  LET eq == IndexFrom(w, <<"=">>, 1)
      raw == IF eq = 0 THEN <<>> ELSE SubSeq(w, eq + 1, Len(w))
  IN IF Len(raw) >= 2 /\ raw[1] = "\"" /\ raw[Len(raw)] = "\""
     THEN SubSeq(raw, 2, Len(raw) - 1) ELSE raw
AttrAllowed(w, cfg) ==
  /\ AttrName(w) \in cfg.attrs
  /\ ~OccursAt(toLowerCase(AttrValue(w)), <<"j","a","v","a","s","c","r","i","p","t",":">>, 1)
RECURSIVE SerializeAttrs(_, _)
SerializeAttrs(ws, cfg) ==
  IF ws = <<>> THEN <<>>
  ELSE (IF AttrAllowed(Head(ws), cfg)
        THEN <<" ">> \o AttrName(Head(ws)) \o <<"=","\"">> \o AttrValue(Head(ws)) \o <<"\"">>
        ELSE <<>>) \o SerializeAttrs(Tail(ws), cfg)

\* the inside of a tag, without a trailing "/"
TagInner(s, i, gt) ==
  LET inner == SubSeq(s, i, gt - 1)
  IN IF inner # <<>> /\ inner[Len(inner)] = "/"
     THEN SubSeq(inner, 1, Len(inner) - 1) ELSE inner

\* the stack and the output of a start tag that may close an open p element
StartTag(stack, name, cfg, attrs) ==
  LET k == IF name \in ClosesParagraph THEN OpenInScope(stack, <<"p">>) ELSE 0
      below == IF k = 0 THEN stack ELSE SubSeq(stack, 1, k - 1)
      kept == name \in cfg.tags
  IN [out |-> (IF k = 0 THEN <<>> ELSE CloseAll(SubSeq(stack, k, Len(stack))))
              \o (IF kept THEN <<"<">> \o name \o attrs \o <<">">> ELSE <<>>),
      stack |-> IF name \in VoidElements THEN below ELSE Append(below, Open(name, kept))]

\* the stack and the output of an end tag
EndTag(stack, name, cfg) ==
  LET k == OpenInScope(stack, name) IN
  IF k # 0
  THEN [out |-> CloseAll(SubSeq(stack, k, Len(stack))), stack |-> SubSeq(stack, 1, k - 1)]
  ELSE IF name = <<"p">> /\ name \in cfg.tags
  THEN [out |-> <<"<","p",">","<","/","p",">">>, stack |-> stack]
  ELSE [out |-> <<>>, stack |-> stack]

RECURSIVE Walk(_, _, _, _)
\* the output of a parse step, followed by the walk from position i on
WalkOn(s, step, i, cfg) == step.out \o Walk(s, i, step.stack, cfg)

Walk(s, i, stack, cfg) ==
  IF i > Len(s) THEN CloseAll(stack)
  ELSE IF s[i] = "<" /\ i < Len(s) /\ s[i + 1] \in Letters THEN
    \* start tag
    LET gt == IndexFrom(s, <<">">>, i) IN
    IF gt = 0 THEN CloseAll(stack)
    ELSE LET ws == Words(TagInner(s, i + 1, gt))
             name == toLowerCase(ws[1])
         IN IF name \notin cfg.tags /\ name \in ForbidContents
            THEN LET end == IndexFrom(toLowerCase(s), <<"<","/">> \o name, gt + 1)
                     egt == IF end = 0 THEN 0 ELSE IndexFrom(s, <<">">>, end)
                 IN IF egt = 0 THEN CloseAll(stack) ELSE Walk(s, egt + 1, stack, cfg)
            ELSE WalkOn(s, StartTag(stack, name, cfg, SerializeAttrs(Tail(ws), cfg)),
                        \* a line feed right after <pre> is dropped by the parser
                        IF name = <<"p","r","e">> /\ gt < Len(s) /\ s[gt + 1] = "\n"
                        THEN gt + 2 ELSE gt + 1, cfg)
  ELSE IF s[i] = "<" /\ i + 1 < Len(s) /\ s[i + 1] = "/" /\ s[i + 2] \in Letters THEN
    \* end tag
    LET gt == IndexFrom(s, <<">">>, i) IN
    IF gt = 0 THEN CloseAll(stack)
    ELSE WalkOn(s, EndTag(stack, toLowerCase(Words(SubSeq(s, i + 2, gt - 1))[1]), cfg),
                gt + 1, cfg)
  ELSE IF s[i] = "<" /\ i < Len(s) /\ s[i + 1] \in {"/", "!", "?"} THEN
    \* bogus comment
    LET gt == IndexFrom(s, <<">">>, i) IN
    IF gt = 0 THEN CloseAll(stack) ELSE Walk(s, gt + 1, stack, cfg)
  ELSE IF s[i] = "&" /\ \E e \in Entities : OccursAt(s, e, i) THEN
    LET e == CHOOSE x \in Entities : OccursAt(s, x, i)
    IN e \o Walk(s, i + Len(e), stack, cfg)
  ELSE EscapeChar(s[i]) \o Walk(s, i + 1, stack, cfg)

purifySanitize(s, cfg) ==
  IF ~Contains(s, <<"<">>) THEN s ELSE Walk(s, 1, <<>>, cfg)

purify(s) == purifySanitize(s, DefaultConfig)

sanitizeHtml(html) == purifySanitize(html, HtmlConfig)

(***************************************************************************)
(* contactFormSchema and validateContactForm (validation.ts 15-97)         *)
(***************************************************************************)
\* a JavaScript value of a body field: undefined, a string, or another type
Undefined == [t |-> "undefined", v |-> <<>>]
Str(s) == [t |-> "string", v |-> s]
NotAString == [t |-> "other", v |-> <<>>]
Err(f, m) == [field |-> f, message |-> m]

NameMax == 100
EmailMax == 254
SubjectMax == 200
MessageMin == 10
MessageMax == 5000

\* /^[a-zA-Z\s\-'\.]+$/
NamePatternOk(s) ==
  s # <<>> /\ \A i \in DOMAIN s : s[i] \in Letters \cup Whitespace \cup {"-", "'", "."}

\* the value Joi hands on for a string field that has the trim rule
Trimmed(x) == IF x.t = "string" THEN Str(trim(x.v)) ELSE x

nameErrors(x) ==
  LET y == Trimmed(x) IN
  IF y.t = "undefined" THEN <<Err("name", "\"name\" is required")>>
  ELSE IF y.t # "string" THEN <<Err("name", "\"name\" must be a string")>>
  ELSE IF y.v = <<>> THEN <<Err("name", "Name is required")>>
  ELSE (IF Len(y.v) < 1
        THEN <<Err("name", "Name must be at least 1 character long")>> ELSE <<>>)
       \o (IF Len(y.v) > NameMax
           THEN <<Err("name", "Name must be less than 100 characters")>> ELSE <<>>)
       \o (IF ~NamePatternOk(y.v)
           THEN <<Err("name", "Name contains invalid characters")>> ELSE <<>>)

\* Joi's email rule with minDomainSegments 2 and the built-in TLD list
Tlds == {<<"c","o","m">>, <<"o","r","g">>, <<"n","e","t">>, <<"m","e">>}
LocalChars ==
  Letters \cup Digits \cup
  {"!", "#", "$", "%", "&", "'", "*", "+", "-", "/", "=", "?", "^", "_", "{", "|", "}", "~"}
DomainSegmentOk(seg) ==
  /\ seg # <<>>
  /\ Len(seg) <= 63
  /\ \A i \in DOMAIN seg : seg[i] \in Letters \cup Digits \cup {"-"}
  /\ seg[1] # "-"
  /\ seg[Len(seg)] # "-"
EmailSyntaxOk(s) ==
  LET parts == Split(s, "@") IN
  /\ Len(s) <= 254
  /\ Len(parts) = 2
  /\ LET local == parts[1]
         domain == parts[2]
         lsegs == Split(local, ".")
         dsegs == Split(domain, ".")
     IN /\ local # <<>>
        /\ Len(local) <= 64
        /\ \A k \in DOMAIN lsegs :
             lsegs[k] # <<>> /\ \A i \in DOMAIN lsegs[k] : lsegs[k][i] \in LocalChars
        /\ domain # <<>>
        /\ Len(dsegs) >= 2
        /\ \A k \in DOMAIN dsegs : DomainSegmentOk(dsegs[k])
        /\ toLowerCase(dsegs[Len(dsegs)]) \in Tlds

emailErrors(x) ==
  IF x.t = "undefined" THEN <<Err("email", "\"email\" is required")>>
  ELSE IF x.t # "string" THEN <<Err("email", "\"email\" must be a string")>>
  ELSE IF x.v = <<>> THEN <<Err("email", "Email is required")>>
  ELSE (IF ~EmailSyntaxOk(x.v)
        THEN <<Err("email", "Please provide a valid email address")>> ELSE <<>>)
       \o (IF Len(x.v) > EmailMax
           THEN <<Err("email", "Email must be less than 254 characters")>> ELSE <<>>)

subjectErrors(x) ==
  LET y == Trimmed(x) IN
  IF y.t = "undefined" THEN <<>>
  ELSE IF y.t # "string" THEN <<Err("subject", "\"subject\" must be a string")>>
  ELSE IF y.v = <<>> THEN <<>>
  ELSE IF Len(y.v) > SubjectMax
       THEN <<Err("subject", "Subject must be less than 200 characters")>> ELSE <<>>

messageErrors(x) ==
  LET y == Trimmed(x) IN
  IF y.t = "undefined" THEN <<Err("message", "\"message\" is required")>>
  ELSE IF y.t # "string" THEN <<Err("message", "\"message\" must be a string")>>
  ELSE IF y.v = <<>> THEN <<Err("message", "Message is required")>>
  ELSE (IF Len(y.v) < MessageMin
        THEN <<Err("message", "Message must be at least 10 characters long")>> ELSE <<>>)
       \o (IF Len(y.v) > MessageMax
           THEN <<Err("message", "Message must be less than 5000 characters")>> ELSE <<>>)

\* a request body: undefined, a value that is not an object, or an object
UndefinedBody ==
  [t |-> "undefined", name |-> Undefined, email |-> Undefined,
   subject |-> Undefined, message |-> Undefined]
NonObjectBody ==
  [t |-> "other", name |-> Undefined, email |-> Undefined,
   subject |-> Undefined, message |-> Undefined]
Obj(n, e, s, m) ==
  [t |-> "object", name |-> n, email |-> e, subject |-> s, message |-> m]

\* a validation that stops at the first error, as abortEarly: true would
schemaErrorsAbortEarly(data) ==
  IF data.t = "undefined" THEN <<>>
  ELSE IF data.t # "object" THEN <<Err("", "\"value\" must be of type object")>>
  ELSE SubSeq(nameErrors(data.name) \o emailErrors(data.email)
              \o subjectErrors(data.subject) \o messageErrors(data.message), 1, 1)

\* contactFormSchema.validate(data, {abortEarly: false, stripUnknown: true}).error
schemaErrors(data) ==
  IF data.t = "undefined" THEN <<>>
  ELSE IF data.t # "object" THEN <<Err("", "\"value\" must be of type object")>>
  ELSE nameErrors(data.name) \o emailErrors(data.email)
       \o subjectErrors(data.subject) \o messageErrors(data.message)

NoData == [name |-> <<>>, email |-> <<>>, subject |-> Undefined, message |-> <<>>]

\* validateContactForm: "throw" stands for the TypeError of reading value.name
\* when the schema let an undefined value through
validateContactForm(data) ==
  IF schemaErrors(data) # <<>>
  THEN [outcome |-> "invalid", errors |-> schemaErrors(data), sanitizedData |-> NoData]
  ELSE IF data.t = "undefined"
  THEN [outcome |-> "throw", errors |-> <<>>, sanitizedData |-> NoData]
  ELSE [outcome |-> "valid", errors |-> <<>>,
        sanitizedData |->
          [name |-> purify(trim(data.name.v)),
           email |-> purify(data.email.v),
           subject |-> IF Trimmed(data.subject).t = "string" /\ Trimmed(data.subject).v # <<>>
                       THEN Str(purify(Trimmed(data.subject).v)) ELSE Undefined,
           message |-> purify(trim(data.message.v))]]

(***************************************************************************)
(* isSpam (validation.ts 102-117)                                          *)
(***************************************************************************)
SpamWords == {<<"v","i","a","g","r","a">>, <<"c","i","a","l","i","s">>, <<"c","a","s","i","n","o">>, <<"p","o","k","e","r">>, <<"l","o","t","t","e","r","y">>, <<"w","i","n","n","e","r">>, <<"c","o","n","g","r","a","t","u","l","a","t","i","o","n","s">>}
SpamPhrases == {<<"c","l","i","c","k"," ","h","e","r","e">>, <<"f","r","e","e"," ","m","o","n","e","y">>, <<"m","a","k","e"," ","m","o","n","e","y"," ","f","a","s","t">>, <<"w","o","r","k"," ","f","r","o","m"," ","h","o","m","e">>}
MinUrls == 3
MinRepeats == 10
MinNonAscii == 20

\* \b(?:w1|w2|...)\b : one of the words, at word boundaries
WordBoundaryMatch(s, ws) ==
  \E w \in ws : \E i \in 1..Len(s) :
    /\ OccursAt(s, w, i)
    /\ (i = 1 \/ s[i - 1] \notin WordChars)
    /\ (i + Len(w) > Len(s) \/ s[i + Len(w)] \notin WordChars)

\* (?:https?:\/\/[^\s]+){k} matches a prefix of s from position i
RECURSIVE UrlsAt(_, _, _)
UrlsAt(s, i, k) ==
  IF k = 0 THEN TRUE
  ELSE \E p \in {<<"h","t","t","p",":","/","/">>, <<"h","t","t","p","s",":","/","/">>} :
         /\ OccursAt(s, p, i)
         /\ \E e \in (i + Len(p))..Len(s) :
              /\ \A j \in (i + Len(p))..e : s[j] \notin Whitespace
              /\ UrlsAt(s, e + 1, k - 1)
MultipleUrls(s) == \E i \in 1..Len(s) : UrlsAt(s, i, MinUrls)

\* (.)\1{10,}
RepeatedChars(s) ==
  \E i \in 1..Len(s) :
    /\ i + MinRepeats <= Len(s)
    /\ s[i] \notin LineTerminators
    /\ \A j \in 1..MinRepeats : s[i + j] = s[i]

\* [^\x00-\x7F]{20,}
NonAsciiRun(s) ==
  \E i \in 1..Len(s) :
    /\ i + MinNonAscii - 1 <= Len(s)
    /\ \A j \in 0..(MinNonAscii - 1) : s[i + j] \in NonAscii

isSpam(content) ==
  LET cleanContent == toLowerCase(content) IN
  \/ WordBoundaryMatch(cleanContent, SpamWords)
  \/ WordBoundaryMatch(cleanContent, SpamPhrases)
  \/ MultipleUrls(cleanContent)
  \/ RepeatedChars(cleanContent)
  \/ NonAsciiRun(cleanContent)

(***************************************************************************)
(* shared/security: SECURITY_HEADERS, getCorsHeaders, generateRequestId,   *)
(* getClientIp.  A header is a <<name, value>> pair.                       *)
(***************************************************************************)
AllowedOrigin == "https://yourdomain.com"
MaliciousOrigin == "https://malicious-site.com"
NoOrigin == "undefined"
AllowedOrigins == {AllowedOrigin}

SECURITY_HEADERS ==
  {<<"X-Frame-Options", "DENY">>,
   <<"Strict-Transport-Security", "max-age=31536000; includeSubDomains">>,
   <<"Content-Security-Policy", "default-src 'none'">>,
   <<"X-Content-Type-Options", "nosniff">>}

getCorsHeaders(origin) ==
  IF origin \in AllowedOrigins
  THEN {<<"Access-Control-Allow-Origin", origin>>,
        <<"Access-Control-Allow-Methods", "POST, OPTIONS">>,
        <<"Access-Control-Allow-Headers", "Content-Type, Authorization, X-Requested-With">>}
  ELSE {}

\* generateRequestId: the n-th request gets the non-empty identifier n
generateRequestId(n) == n

JsonContentType == <<"Content-Type", "application/json">>
RetryAfter == <<"Retry-After", "900">>

HeaderNames(h) == {p[1] : p \in h}

(***************************************************************************)
(* Responses (types.ts ContactFormResponse, ApiError)                      *)
(***************************************************************************)
NoBody ==
  [kind |-> "none", success |-> FALSE, code |-> "", message |-> "",
   hasDetails |-> FALSE, details |-> <<>>, timestamp |-> 0, id |-> 0]
NullBody == [NoBody EXCEPT !.kind = "null"]
ApiError(code, message, t) ==
  [NoBody EXCEPT !.kind = "error", !.code = code, !.message = message, !.timestamp = t]
ApiErrorDetails(code, message, details, t) ==
  [ApiError(code, message, t) EXCEPT !.hasDetails = TRUE, !.details = details]
SuccessMessage == "Thank you for your message. We will get back to you soon."
\* a success body without the correlation identifier
ContactFormResponseNoId(id) ==
  [NoBody EXCEPT !.kind = "success", !.success = TRUE, !.message = SuccessMessage]

ContactFormResponse(id) ==
  [NoBody EXCEPT !.kind = "success", !.success = TRUE, !.message = SuccessMessage, !.id = id]

NoRes == [status |-> 0, headers |-> {}, body |-> NoBody]
Res(status, headers, body) == [status |-> status, headers |-> headers, body |-> body]

(***************************************************************************)
(* Requests the model sends                                                *)
(***************************************************************************)
JohnDoe == <<"J","o","h","n"," ","D","o","e">>
JohnEmail == <<"j","o","h","n","@","e","x","a","m","p","l","e",".","c","o","m">>
ValidBody == Obj(Str(JohnDoe), Str(JohnEmail), Str(<<"T","e","s","t"," ","S","u","b","j","e","c","t">>), Str(<<"T","h","i","s"," ","i","s"," ","a"," ","t","e","s","t"," ","m","e","s","s","a","g","e",".">>))
SpamBody ==
  Obj(Str(JohnDoe), Str(JohnEmail), Str(<<"T","e","s","t"," ","S","u","b","j","e","c","t">>),
      Str(<<"C","l","i","c","k"," ","h","e","r","e"," ","f","o","r"," ","f","r","e","e"," ","m","o","n","e","y"," ","a","n","d"," ","c","a","s","i","n","o"," ","w","i","n","n","i","n","g","s","!">>))
InvalidBody == Obj(Str(<<>>), Str(<<"i","n","v","a","l","i","d","-","e","m","a","i","l">>), Undefined, Str(<<"T","o","o"," ","s","h","o","r","t">>))
\* the message of the sanitization test (part_000 line 223) under a valid name
MarkupMessage == <<"M","e","s","s","a","g","e"," ","w","i","t","h"," ","<","i","m","g"," ","s","r","c","=","\"","x","\""," ","o","n","e","r","r","o","r","=","\"","a","l","e","r","t","(","1",")","\"",">"," ","h","a","r","m","f","u","l"," ","c","o","n","t","e","n","t",".">>
MarkupBody == Obj(Str(JohnDoe), Str(JohnEmail), Undefined, Str(MarkupMessage))

Slots == 1..MaxInFlight
\* the burst scenario handles its requests one after the other
SlotsOf(sc) == IF sc = "burst" THEN {1} ELSE Slots
Methods(sc) == IF sc = "burst" THEN {"POST"} ELSE {"POST", "OPTIONS", "GET"}
Origins(sc) ==
  IF sc = "burst" THEN {AllowedOrigin} ELSE {AllowedOrigin, MaliciousOrigin}
Bodies(sc) ==
  IF sc = "burst" THEN {ValidBody, SpamBody, InvalidBody}
  ELSE {ValidBody, SpamBody, InvalidBody, UndefinedBody, MarkupBody}
ClientsOf(sc) == IF sc = "burst" THEN Clients ELSE {"10.0.0.1"}
HandledBound(sc) == IF sc = "burst" THEN MaxBurst ELSE MaxHandled
AllBodies == {ValidBody, SpamBody, InvalidBody, UndefinedBody, NonObjectBody, MarkupBody}
\* validateContactForm and the spam verdict of each body, evaluated once
ValidationOf == [b \in AllBodies |-> validateContactForm(b)]
\* `${formData.name} ${formData.subject || ''} ${formData.message}` (759)
messageContent(formData) ==
  formData.name \o <<" ">> \o formData.subject.v \o <<" ">> \o formData.message
SpamOf ==
  [b \in AllBodies |->
     ValidationOf[b].outcome = "valid" /\ isSpam(messageContent(ValidationOf[b].sanitizedData))]
\* Date.now() advances by one of these amounts
Steps(sc) == IF sc = "pipeline" THEN {windowMs} ELSE {1, windowMs - 1}

(***************************************************************************)
(* One invocation of contactFormFunction (validation.ts 649-832) and the   *)
(* EmailService it awaits (validation.ts 291-620)                          *)
(***************************************************************************)
NoArgs == [formData |-> NoData, requestId |-> 0]
IdleSlot ==
  [pc |-> "idle", method |-> "", origin |-> NoOrigin, clientIp |-> "",
   body |-> UndefinedBody, requestId |-> 0, invocationId |-> 0, recvAt |-> 0,
   rl |-> "none", seen |-> 0, validation |-> "none", errors |-> <<>>, spam |-> "none",
   mailCalls |-> 0, mailArgs |-> NoArgs, mailResult |-> "none", tr |-> 0,
   res |-> NoRes, resSets |-> 0, logOps |-> {}, remaining |-> 0]

\* Logger.log stamps the record with this.context?.operationId (logger.ts 30-36)
Log(slot, ctx) == [slot EXCEPT !.logOps = @ \cup {ctx.operationId}]

\* context.res = ...; return
Finish(slot, res) == [slot EXCEPT !.pc = "done", !.res = res, !.resSets = @ + 1]

\* headers that echo whatever origin the request declared
JsonHeadersReflectOrigin(origin) ==
  SECURITY_HEADERS \cup {<<"Access-Control-Allow-Origin", origin>>} \cup {JsonContentType}

JsonHeaders(origin) == SECURITY_HEADERS \cup getCorsHeaders(origin) \cup {JsonContentType}

\* a gate that lets every method but OPTIONS through
methodGateOptionsOnly(method) ==
  IF method = "OPTIONS" THEN "preflight" ELSE "pass"

\* what the two method tests (673, 686) make of req.method
methodGate(method) ==
  IF method = "OPTIONS" THEN "preflight"
  ELSE IF method # "POST" THEN "reject" ELSE "pass"

\* a preflight answer that carries the CORS headers alone
PreflightResponseCorsOnly(origin) ==
  Res(200, getCorsHeaders(origin), NullBody)

\* context.res of the preflight branch (674-681)
PreflightResponse(origin) ==
  Res(200, SECURITY_HEADERS \cup getCorsHeaders(origin), NullBody)

\* context.res of the method branch (687-701)
MethodNotAllowedResponse(origin, t) ==
  Res(405, JsonHeaders(origin),
      ApiError("METHOD_NOT_ALLOWED", "Only POST requests are allowed", t))

\* a 429 without the Retry-After header
RateLimitResponseNoRetryAfter(origin, t) ==
  Res(429, JsonHeaders(origin),
      ApiError("RATE_LIMIT_EXCEEDED", "Too many requests. Please try again later.", t))

\* context.res of the rate-limit branch (709-724)
RateLimitResponse(origin, t) ==
  Res(429, JsonHeaders(origin) \cup {RetryAfter},
      ApiError("RATE_LIMIT_EXCEEDED", "Too many requests. Please try again later.", t))

\* a 400 that reports the first validation error only
ValidationErrorResponseFirstOnly(origin, errors, t) ==
  Res(400, JsonHeaders(origin),
      ApiErrorDetails("VALIDATION_ERROR", "Invalid input data", <<Head(errors)>>, t))

\* context.res of the validation branch (737-752)
ValidationErrorResponse(origin, errors, t) ==
  Res(400, JsonHeaders(origin),
      ApiErrorDetails("VALIDATION_ERROR", "Invalid input data", errors, t))

\* a handler that tells the sender that the message was filtered
SpamResponseRejects(origin, requestId) ==
  Res(400, JsonHeaders(origin), ApiError("SPAM_DETECTED", "Message rejected", 0))

\* context.res of the spam branch (767-781)
SpamResponse(origin, requestId) ==
  Res(200, JsonHeaders(origin), ContactFormResponse(requestId))

\* an acceptance whose wording differs from the one spam receives
SuccessResponseOtherMessage(origin, requestId) ==
  Res(200, JsonHeaders(origin),
      [ContactFormResponse(requestId) EXCEPT !.message = "Your message has been sent."])

\* context.res after the mail was sent (793-807)
SuccessResponse(origin, requestId) ==
  Res(200, JsonHeaders(origin), ContactFormResponse(requestId))

\* a catch block that hands the text of the error to the caller
InternalErrorResponseWithDetails(origin, t) ==
  Res(500, JsonHeaders(origin),
      ApiErrorDetails("INTERNAL_SERVER_ERROR",
                      "An unexpected error occurred. Please try again later.",
                      <<Err("error", "error.message")>>, t))

\* context.res of the catch block (816-830)
InternalErrorResponse(origin, t) ==
  Res(500, JsonHeaders(origin),
      ApiError("INTERNAL_SERVER_ERROR",
               "An unexpected error occurred. Please try again later.", t))

\* the catch block of contactFormFunction (809-831)
Catch500(slot, ctx, t) ==
  Finish(Log(slot, ctx), InternalErrorResponse(slot.origin, t))

\* a handler that answers a failed send by sending again
SendFailedRetries(slot, ctx, t) ==
  [Log(slot, ctx) EXCEPT !.pc = "sendMail", !.mailCalls = @ + 1]

\* sendContactEmail's catch (587-595): log, rethrow; the handler's catch follows
SendFailed(slot, ctx, t) ==
  Catch500([Log(slot, ctx) EXCEPT !.mailResult = "failed"], ctx, t)

\* nodemailer.createTransporter(...) assigned to this.transporter (394-410),
\* then the await of verify() (414); the new transporter object is named by id
CreateTransporter(em, slot) ==
  [email |-> [em EXCEPT !.config = TRUE, !.transporter = slot.requestId],
   slot |-> [slot EXCEPT !.pc = "verify", !.tr = slot.requestId]]

\* transporter.sendMail(mailOptions) is called on transporter tr and awaited (579)
CallSendMail(em, slot, tr) ==
  [email |-> [em EXCEPT !.sendMailCalls = @ + 1,
                        !.sentUnverified = @ \/ tr \notin em.verified],
   slot |-> [slot EXCEPT !.pc = "sendMail", !.tr = tr]]

\* EmailService.sendContactEmail up to its first suspension (560-579, 387-392, 323-361)
StartSend(em, slot, ctx, t) ==
  IF em.transporter # 0 THEN CallSendMail(em, slot, em.transporter)
  ELSE IF em.config THEN CreateTransporter(em, slot)
  ELSE IF em.secretClient THEN [email |-> em, slot |-> [slot EXCEPT !.pc = "secrets"]]
  ELSE IF em.envOk THEN CreateTransporter(em, Log(slot, ctx))
  ELSE [email |-> em, slot |-> SendFailed(slot, ctx, t)]

\* arguments that reach sendContactEmail with the fields of the request body
\* as they arrived
SendArgsRaw(vr, slot) ==
  [formData |-> [name |-> slot.body.name.v, email |-> slot.body.email.v,
                 subject |-> slot.body.subject, message |-> slot.body.message.v],
   requestId |-> slot.requestId]

\* the arguments of sendContactEmail(formData, requestId) (756, 786)
SendArgs(vr, slot) == [formData |-> vr.sanitizedData, requestId |-> slot.requestId]

\* the handler from validation to its first suspension or its return (729-786);
\* vr is validateContactForm(req.body), spam is isSpam of the message content
HandlerAfterRateLimit(slot, vr, spam, reqs, em, ctx, t) ==
  LET sl2 == [slot EXCEPT !.validation = vr.outcome, !.errors = vr.errors] IN
  IF vr.outcome = "throw"
  THEN [slot |-> Catch500(sl2, ctx, t), requests |-> reqs, email |-> em]
  ELSE IF vr.outcome = "invalid"
  THEN [slot |-> Finish(Log(sl2, ctx),
                        ValidationErrorResponse(slot.origin, vr.errors, t)),
        requests |-> reqs, email |-> em]
  ELSE IF spam
  THEN [slot |-> Finish(Log([sl2 EXCEPT !.spam = "yes"], ctx),
                        SpamResponse(slot.origin, slot.requestId)),
        requests |-> reqs, email |-> em]
  ELSE
    LET sl3 == [sl2 EXCEPT !.spam = "no", !.mailCalls = @ + 1,
                           !.mailArgs = SendArgs(vr, slot),
                           !.mailResult = "pending"]
        st == StartSend(em, sl3, ctx, t)
    IN [slot |-> st.slot, requests |-> reqs, email |-> st.email]

\* the handler from its entry to its first suspension or its return (653-786)
HandlerSync(slot0, reqs, em, t) ==
  LET ctx == [operationId |-> slot0.invocationId]
      slot == Log(slot0, ctx)
      keep(sl) == [slot |-> sl, requests |-> reqs, email |-> em]
  IN
  IF methodGate(slot.method) = "preflight"
  THEN keep(Finish(slot, PreflightResponse(slot.origin)))
  ELSE IF methodGate(slot.method) = "reject"
  THEN keep(Finish(slot, MethodNotAllowedResponse(slot.origin, t)))
  ELSE
    LET limited == isRateLimited(reqs, slot.clientIp, t)
        reqs2 == requestsAfter(reqs, slot.clientIp, t)
        sl1 == [slot EXCEPT !.rl = IF limited THEN "limited" ELSE "admitted"]
    IN
    IF limited
    THEN [slot |-> Finish(Log(sl1, ctx), RateLimitResponse(slot.origin, t)),
          requests |-> reqs2, email |-> em]
    ELSE HandlerAfterRateLimit(sl1, ValidationOf[slot.body], SpamOf[slot.body],
                               reqs2, em, ctx, t)

\* the handler after sendContactEmail resolved (788-807)
HandlerSuccess(slot, reqs, ctx, t) ==
  Finish([Log(slot, ctx) EXCEPT !.mailResult = "ok",
                                !.remaining = getRemainingRequests(reqs, slot.clientIp, t)],
         SuccessResponse(slot.origin, slot.requestId))

(***************************************************************************)
(* State machine                                                           *)
(***************************************************************************)
EmptyMap == [x \in {} |-> <<>>]
NoRet == [op |-> "none", identifier |-> "", value |-> 0, limited |-> FALSE]
NoContext == [operationId |-> 0]
EmailInit(secretClient, envOk) ==
  [config |-> FALSE, transporter |-> 0, verified |-> {}, secretClient |-> secretClient,
   envOk |-> envOk, sendMailCalls |-> 0, sentUnverified |-> FALSE]

\* the limiter after k admitted requests of one client at time 0
RECURSIVE Warm(_, _)
Warm(identifier, k) ==
  IF k = 0 THEN EmptyMap ELSE requestsAfter(Warm(identifier, k - 1), identifier, 0)
WarmCount == maxRequests - 1

\* number of entries of a sequence of times that lie in the window ending at t
InWindow(times, t) ==
  Cardinality({i \in DOMAIN times : times[i] > t - windowMs /\ times[i] <= t})

\* no direct call of an exported function was made
NoArg == <<>>
NoResult == [op |-> "none", input |-> <<>>, value |-> <<>>, prev |-> "none", pass |-> 0]

InitCommon ==
  /\ now = 0
  /\ slots = [s \in Slots |-> IdleSlot]
  /\ handled = 0
  /\ ticks = 0
  /\ loggerContext = NoContext
  /\ ret = NoRet

\* the endpoint, fresh or after WarmCount or maxRequests admitted requests of
\* one client
Init ==
  /\ InitCommon
  /\ arg = NoArg /\ result = NoResult
  /\ scenario = "pipeline"
  /\ \E k \in {0, WarmCount, maxRequests} :
       /\ requests = Warm("10.0.0.1", k)
       /\ admitted = [c \in Clients |-> IF c = "10.0.0.1" THEN [i \in 1..k |-> 0] ELSE <<>>]
       /\ nextId = k + 1
  /\ email \in {EmailInit(TRUE, FALSE), EmailInit(FALSE, TRUE), EmailInit(FALSE, FALSE)}

InitBurst ==
  /\ InitCommon
  /\ arg = NoArg /\ result = NoResult
  /\ scenario = "burst"
  /\ requests = EmptyMap
  /\ admitted = [c \in Clients |-> <<>>]
  /\ nextId = 1
  /\ email \in {EmailInit(TRUE, FALSE), EmailInit(FALSE, TRUE)}

InitLimiter ==
  /\ InitCommon
  /\ arg = NoArg /\ result = NoResult
  /\ scenario = "limiter"
  /\ requests = EmptyMap
  /\ admitted = [c \in Clients |-> <<>>]
  /\ nextId = 1
  /\ email = EmailInit(FALSE, TRUE)

\* a request arrives and contactFormFunction runs to its first suspension
Receive(s, method, origin, clientIp, body) ==
  /\ slots[s].pc \in {"idle", "done"}
  /\ handled < HandledBound(scenario)
  /\ LET slot0 == [IdleSlot EXCEPT !.method = method, !.origin = origin,
                                   !.clientIp = clientIp, !.body = body,
                                   !.requestId = generateRequestId(nextId),
                                   !.invocationId = nextId, !.recvAt = now,
                                   !.seen = InWindow(admitted[clientIp], now)]
     IN \E out \in {HandlerSync(slot0, requests, email, now)} :
          /\ slots' = [slots EXCEPT ![s] = out.slot]
          /\ requests' = out.requests
          /\ email' = out.email
          /\ admitted' = IF out.slot.rl = "admitted"
                         THEN [admitted EXCEPT ![clientIp] = Append(@, now)]
                         ELSE admitted
  /\ loggerContext' = [operationId |-> nextId]
  /\ nextId' = nextId + 1
  /\ handled' = handled + 1
  /\ UNCHANGED <<now, ticks, ret, scenario, arg, result>>

\* Promise.all of the three getSecret calls settles (331-361)
SecretsDone(s, outcome) ==
  /\ slots[s].pc = "secrets"
  /\ LET out == IF outcome = "ok"
                THEN CreateTransporter(email, Log(slots[s], loggerContext))
                ELSE [email |-> email, slot |-> SendFailed(Log(slots[s], loggerContext),
                                                           loggerContext, now)]
     IN /\ slots' = [slots EXCEPT ![s] = out.slot]
        /\ email' = out.email
  /\ UNCHANGED <<now, requests, nextId, handled, ticks, loggerContext, admitted, ret, scenario, arg, result>>

\* transporter.verify() settles (413-421), then sendContactEmail goes on to sendMail
VerifyDone(s, ok) ==
  /\ slots[s].pc = "verify"
  /\ LET em == [email EXCEPT !.verified = IF ok THEN @ \cup {slots[s].tr} ELSE @]
         out == IF ok
                THEN CallSendMail(em, Log(slots[s], loggerContext), em.transporter)
                ELSE [email |-> em, slot |-> SendFailed(Log(slots[s], loggerContext),
                                                        loggerContext, now)]
     IN /\ slots' = [slots EXCEPT ![s] = out.slot]
        /\ email' = out.email
  /\ UNCHANGED <<now, requests, nextId, handled, ticks, loggerContext, admitted, ret, scenario, arg, result>>

\* transporter.sendMail() settles (579-595) and the handler resumes (788-807)
SendMailDone(s, ok) ==
  /\ slots[s].pc = "sendMail"
  /\ slots' = [slots EXCEPT ![s] =
                 IF ok
                 THEN HandlerSuccess(Log(slots[s], loggerContext), requests, loggerContext, now)
                 ELSE SendFailed(slots[s], loggerContext, now)]
  /\ UNCHANGED <<now, requests, nextId, handled, ticks, email, loggerContext, admitted,
                 ret, scenario, arg, result>>

\* the clock advances
Tick(d) ==
  /\ ticks < MaxTicks
  /\ now' = now + d
  /\ ticks' = ticks + 1
  /\ UNCHANGED <<requests, slots, nextId, handled, email, loggerContext, admitted, ret,
                 scenario, arg, result>>

\* direct calls of the exported rateLimiter
CallIsRateLimited(identifier) ==
  /\ handled < MaxCalls
  /\ ret' = [op |-> "isRateLimited", identifier |-> identifier, value |-> 0,
             limited |-> isRateLimited(requests, identifier, now)]
  /\ requests' = requestsAfter(requests, identifier, now)
  /\ handled' = handled + 1
  /\ UNCHANGED <<now, slots, nextId, ticks, email, loggerContext, admitted, scenario, arg, result>>

CallGetRemainingRequests(identifier) ==
  /\ handled < MaxCalls
  /\ ret' = [op |-> "getRemainingRequests", identifier |-> identifier,
             value |-> getRemainingRequests(requests, identifier, now), limited |-> FALSE]
  /\ handled' = handled + 1
  /\ UNCHANGED <<now, requests, slots, nextId, ticks, email, loggerContext, admitted,
                 scenario, arg, result>>

ReceiveAny ==
  \E s \in SlotsOf(scenario) : \E method \in Methods(scenario) : \E origin \in Origins(scenario) :
    \E clientIp \in ClientsOf(scenario) : \E body \in Bodies(scenario) :
      Receive(s, method, origin, clientIp, body)
SecretsAny == \E s \in Slots : \E outcome \in {"ok", "error"} : SecretsDone(s, outcome)
VerifyAny == \E s \in Slots : \E ok \in BOOLEAN : VerifyDone(s, ok)
SendMailAny == \E s \in Slots : \E ok \in BOOLEAN : SendMailDone(s, ok)
TickAny == \E d \in Steps(scenario) : Tick(d)

Next == ReceiveAny \/ SecretsAny \/ VerifyAny \/ SendMailAny \/ TickAny

Spec == Init /\ [][Next]_vars

SpecBurst == InitBurst /\ [][Next]_vars

\* every awaited promise settles: the secrets load, verify() and sendMail()
\* of each suspended invocation return or fail
Settles ==
  \A s \in Slots :
    /\ WF_vars(\E outcome \in {"ok", "error"} : SecretsDone(s, outcome))
    /\ WF_vars(\E ok \in BOOLEAN : VerifyDone(s, ok))
    /\ WF_vars(\E ok \in BOOLEAN : SendMailDone(s, ok))

SpecLive == Init /\ [][Next]_vars /\ Settles

NextLimiter ==
  \/ \E identifier \in Clients : CallIsRateLimited(identifier)
  \/ \E identifier \in Clients : CallGetRemainingRequests(identifier)
  \/ TickAny

SpecLimiter == InitLimiter /\ [][NextLimiter]_vars

(***************************************************************************)
(* Direct calls of the exported functions validateContactForm, isSpam and  *)
(* sanitizeHtml, and of purify.sanitize as validateContactForm calls it    *)
(***************************************************************************)
\* String.prototype.repeat
Rep(c, n) == [i \in 1..n |-> c]

\* the name of the sanitization test (part_000 line 221)
ScriptName == <<"J","o","h","n"," ","<","s","c","r","i","p","t",">","a","l","e","r","t","(","\"","x","s","s","\"",")","<","/","s","c","r","i","p","t",">"," ","D","o","e">>
ScriptMessage == <<"<","s","c","r","i","p","t",">","a","l","e","r","t","(","1",")","<","/","s","c","r","i","p","t",">">>
LongEmail ==
  Rep("a", 64) \o <<"@">> \o Rep("b", 63) \o <<".">> \o Rep("c", 63) \o <<".">>
  \o Rep("d", 63) \o <<".","c","o","m">>

\* field values validateContactForm is called with
NamesUnderTest ==
  {Undefined, NotAString, Str(<<>>), Str(JohnDoe), Str(<<" "," ","J","o","h","n"," ","D","o","e"," ">>), Str(ScriptName),
   Str(Rep("x", NameMax)), Str(Rep("x", NameMax + 1)), Str(Rep("1", NameMax + 1))}
EmailsUnderTest ==
  {Undefined, Str(<<>>), Str(<<"i","n","v","a","l","i","d","-","e","m","a","i","l">>), Str(JohnEmail), Str(LongEmail)}
SubjectsUnderTest ==
  {Undefined, NotAString, Str(<<>>), Str(<<"T","e","s","t"," ","S","u","b","j","e","c","t">>), Str(Rep("s", SubjectMax + 1)),
   Str(<<"<","b",">","H","i","<","/","b",">">>)}
MessagesUnderTest ==
  {Undefined, Str(<<"S","h","o","r","t">>), Str(<<"T","h","i","s"," ","i","s"," ","a"," ","v","a","l","i","d"," ","m","e","s","s","a","g","e"," ","w","i","t","h"," ","s","u","f","f","i","c","i","e","n","t"," ","l","e","n","g","t","h",".">>),
   Str(MarkupMessage), Str(ScriptMessage), Str(Rep("m", MessageMax + 1))}
FormInputs ==
  {Obj(n, e, s, m) : n \in NamesUnderTest, e \in EmailsUnderTest,
                     s \in SubjectsUnderTest, m \in MessagesUnderTest}
  \cup {UndefinedBody, NonObjectBody}

\* the endpoint idle, before the first direct call in scenario sc
InitIdle(sc) ==
  /\ InitCommon
  /\ scenario = sc
  /\ requests = EmptyMap
  /\ admitted = [c \in Clients |-> <<>>]
  /\ nextId = 1
  /\ email = EmailInit(FALSE, TRUE)
  /\ result = NoResult

InitValidate == InitIdle("validate") /\ arg \in FormInputs

\* validateContactForm(arg) is called
CallValidateContactForm ==
  /\ scenario = "validate"
  /\ result = NoResult
  /\ result' = [NoResult EXCEPT !.op = "validateContactForm", !.input = arg,
                                !.value = validateContactForm(arg), !.pass = 1]
  /\ UNCHANGED <<now, requests, slots, nextId, handled, ticks, email, loggerContext,
                 admitted, ret, scenario, arg>>

NextValidate == CallValidateContactForm

SpecValidate == InitValidate /\ [][NextValidate]_vars

\* the strings made of at most n of the fragments fs
RECURSIVE TextsOf(_, _)
TextsOf(fs, n) ==
  IF n = 0 THEN {<<>>}
  ELSE TextsOf(fs, n - 1) \cup {t \o f : t \in TextsOf(fs, n - 1), f \in fs}

\* pieces of markup and text the sanitizer is called with
HtmlFragments ==
  {<<"<","b",">">>,
   <<"<","/","b",">">>,
   <<"<","s","c","r","i","p","t",">">>,
   <<"<","/","s","c","r","i","p","t",">">>,
   <<"<","i","m","g"," ","s","r","c","=","\"","x","\""," ","o","n","e","r","r","o","r","=","\"","a","l","e","r","t","(","1",")","\"",">">>,
   <<"<","p"," ","c","l","a","s","s","=","\"","c","\"",">">>,
   <<"<","p",">">>,
   <<"<","/","p",">">>,
   <<"<","b","u","t","t","o","n",">">>,
   <<"<","o","b","j","e","c","t",">">>,
   <<"x">>,
   <<"&">>,
   <<"<">>,
   <<"&","l","t",";">>}

InitSanitize == InitIdle("sanitize") /\ arg \in TextsOf(HtmlFragments, MaxFragments)

\* the string the next call is given: arg, then the value the last call returned
NextInput == IF result.pass = 0 THEN arg ELSE result.value

\* purify.sanitize(x), as validateContactForm calls it (87-90)
CallPurify ==
  /\ scenario = "sanitize"
  /\ result.pass < MaxPasses
  /\ result' = [op |-> "purify", input |-> NextInput, value |-> purify(NextInput),
                prev |-> result.op, pass |-> result.pass + 1]
  /\ UNCHANGED <<now, requests, slots, nextId, handled, ticks, email, loggerContext,
                 admitted, ret, scenario, arg>>

\* sanitizeHtml(x)
CallSanitizeHtml ==
  /\ scenario = "sanitize"
  /\ result.pass < MaxPasses
  /\ result' = [op |-> "sanitizeHtml", input |-> NextInput, value |-> sanitizeHtml(NextInput),
                prev |-> result.op, pass |-> result.pass + 1]
  /\ UNCHANGED <<now, requests, slots, nextId, handled, ticks, email, loggerContext,
                 admitted, ret, scenario, arg>>

NextSanitize == CallPurify \/ CallSanitizeHtml

SpecSanitize == InitSanitize /\ [][NextSanitize]_vars

\* pieces of text with and without URLs that isSpam is called with
UrlFragments == {<<"h","t","t","p",":","/","/","a",".","c","o","m">>, <<"h","t","t","p",":","/","/","a",".","c","o","m"," ">>, <<"h","t","t","p","s",":","/","/","b",".","o","r","g","/","x"," ">>, <<"s","e","e"," ">>, <<"x">>}

\* texts at and around the thresholds of the patterns: keywords in several
\* letter cases and inside longer words, runs of one character, runs of
\* characters outside ASCII
ThresholdTexts ==
  {<<"C","A","S","I","N","O">>, <<"a"," ","C","a","s","i","n","o"," ","n","i","g","h","t">>, <<"c","a","s","i","n","o","s">>,
   <<"C","l","i","c","k"," ","H","E","R","E"," ","n","o","w">>, <<"h","e","l","l","o">>,
   Rep("a", MinRepeats), Rep("a", MinRepeats + 1), Rep("!", MinRepeats + 2),
   <<"a">> \o Rep(" ", MinRepeats + 1) \o <<"b">>,
   <<"a">> \o Rep("\n", MinRepeats) \o <<"b">>,
   <<"a">> \o Rep("\n", MinRepeats + 1) \o <<"b">>,
   Rep(NonAsciiLower, MinRepeats) \o Rep("U+4E2D", MinNonAscii - MinRepeats - 1),
   Rep(NonAsciiLower, MinRepeats) \o Rep("U+4E2D", MinNonAscii - MinRepeats),
   Rep(NonAsciiUpper, MinRepeats) \o <<"x">> \o Rep("U+4E2D", MinRepeats)}

InitSpam ==
  /\ InitIdle("spam")
  /\ arg \in TextsOf(UrlFragments, MaxFragments) \cup ThresholdTexts

\* isSpam(arg) is called
CallIsSpam ==
  /\ scenario = "spam"
  /\ result = NoResult
  /\ result' = [NoResult EXCEPT !.op = "isSpam", !.input = arg, !.value = isSpam(arg),
                                !.pass = 1]
  /\ UNCHANGED <<now, requests, slots, nextId, handled, ticks, email, loggerContext,
                 admitted, ret, scenario, arg>>

NextSpam == CallIsSpam

SpecSpam == InitSpam /\ [][NextSpam]_vars

TypeOK ==
  /\ now \in Nat
  /\ DOMAIN requests \subseteq Clients
  /\ \A s \in Slots : slots[s].pc \in {"idle", "secrets", "verify", "sendMail", "done"}

(***************************************************************************)
(* Properties                                                              *)
(***************************************************************************)
Active == {s \in Slots : slots[s].pc # "idle"}
Done == {s \in Slots : slots[s].pc = "done"}
AdmittedPosts == {s \in Active : slots[s].method = "POST" /\ slots[s].rl = "admitted"}
\* the timestamps of a record that lie inside the window that ends at t
Recent(times, t) == SelectSeq(times, LAMBDA x : x > t - windowMs)

\* C1: a POST is answered 429 RATE_LIMIT_EXCEEDED exactly when its client
\* already has 5 admitted requests in the trailing 15 minutes; otherwise it
\* passes the rate-limit check and goes on to validation.  So of 6 POSTs of one
\* client inside one window the first 5 are admitted and the 6th gets 429.
C1_RejectedIffFiveAdmitted ==
  \A s \in Active :
    slots[s].method = "POST" =>
      /\ slots[s].seen <= maxRequests
      /\ (slots[s].seen >= maxRequests) <=>
           (/\ slots[s].pc = "done"
            /\ slots[s].res.status = 429
            /\ slots[s].res.body.code = "RATE_LIMIT_EXCEEDED")
      /\ (slots[s].seen < maxRequests) <=>
           (slots[s].rl = "admitted" /\ slots[s].validation # "none")

\* the sixth POST of a client inside one window got 429 after five admissions
C1_Witness ==
  \E s \in Done :
    /\ slots[s].res.status = 429
    /\ Len(admitted[slots[s].clientIp]) = maxRequests
    /\ slots[s].recvAt > admitted[slots[s].clientIp][1]
    /\ slots[s].recvAt - admitted[slots[s].clientIp][1] < windowMs
    /\ slots[s].requestId >= maxRequests + 1

\* C2: whatever the interleaving of the requests in flight, no client has more
\* than 5 admitted requests in any 15-minute window, and two admitted requests
\* of one client that arrived at the same instant saw different counts.
C2_AtMostFivePerWindow ==
  /\ \A c \in Clients : \A i \in DOMAIN admitted[c] :
       InWindow(admitted[c], admitted[c][i]) <= maxRequests
  /\ \A s1 \in AdmittedPosts : \A s2 \in AdmittedPosts :
       (s1 # s2 /\ slots[s1].clientIp = slots[s2].clientIp
               /\ slots[s1].recvAt = slots[s2].recvAt)
         => slots[s1].seen # slots[s2].seen

\* two requests of one client are being handled at once with one place left:
\* one of them, still suspended on the mail send, took it and the other got 429
C2_Witness ==
  \E s1 \in Slots : \E s2 \in Slots :
    /\ slots[s1].pc \in {"secrets", "verify", "sendMail"}
    /\ slots[s1].seen = maxRequests - 1
    /\ slots[s2].pc = "done"
    /\ slots[s2].clientIp = slots[s1].clientIp
    /\ slots[s2].requestId > slots[s1].requestId
    /\ slots[s2].res.status = 429

\* C3: isRateLimited(id) counts the timestamps of id inside the window; with 5
\* or more it returns true and leaves the whole map as it was, otherwise it
\* returns false and stores the pruned record with the current time appended.
C3_IsRateLimitedEffect ==
  [][(handled' # handled /\ ret'.op = "isRateLimited") =>
       LET id == ret'.identifier
           times == IF id \in DOMAIN requests THEN requests[id] ELSE <<>>
           pruned == Recent(times, now)
       IN IF Len(pruned) >= maxRequests
          THEN ret'.limited /\ requests' = requests
          ELSE /\ ~ret'.limited
               /\ id \in DOMAIN requests'
               /\ requests'[id] = Append(pruned, now)
               /\ \A o \in (DOMAIN requests') \ {id} :
                    o \in DOMAIN requests /\ requests'[o] = requests[o]
               /\ DOMAIN requests \subseteq DOMAIN requests']_vars

\* a call was refused on a full record, after an earlier call had pruned
C3_Witness ==
  /\ ret.op = "isRateLimited"
  /\ ret.limited
  /\ Len(requests[ret.identifier]) = maxRequests
  /\ requests[ret.identifier][1] > 0

\* C4: getRemainingRequests(id) returns max(0, 5 - n), n the number of id's
\* timestamps inside the window, and changes nothing in the limiter.
C4_GetRemainingPure ==
  [][(handled' # handled /\ ret'.op = "getRemainingRequests") =>
       LET id == ret'.identifier
           times == IF id \in DOMAIN requests THEN requests[id] ELSE <<>>
           n == Len(Recent(times, now))
       IN /\ ret'.value = (IF maxRequests - n > 0 THEN maxRequests - n ELSE 0)
          /\ requests' = requests]_vars

\* the remaining count was asked for a record that holds expired timestamps
C4_Witness ==
  /\ ret.op = "getRemainingRequests"
  /\ ret.identifier \in DOMAIN requests
  /\ ret.value > maxRequests - Len(requests[ret.identifier])
  /\ ret.value < maxRequests

\* C5: the method tests come first and end the request: OPTIONS gets 200 with
\* a null body, any method other than POST and OPTIONS gets 405
\* METHOD_NOT_ALLOWED; the step that handles such a request leaves the rate
\* limiter and the mail service untouched, validates nothing and sends nothing.
C5_MethodGateTerminal ==
  [][\A s \in Slots :
       (slots'[s] # slots[s] /\ slots'[s].method # "POST" /\ slots'[s].pc # "idle") =>
         /\ slots'[s].pc = "done"
         /\ slots'[s].resSets = 1
         /\ IF slots'[s].method = "OPTIONS"
            THEN slots'[s].res.status = 200 /\ slots'[s].res.body.kind = "null"
            ELSE /\ slots'[s].res.status = 405
                 /\ slots'[s].res.body.kind = "error"
                 /\ slots'[s].res.body.code = "METHOD_NOT_ALLOWED"
         /\ slots'[s].rl = "none"
         /\ slots'[s].validation = "none"
         /\ slots'[s].mailCalls = 0
         /\ requests' = requests
         /\ admitted' = admitted
         /\ email' = email]_vars

\* an OPTIONS and a GET request were both answered while the client's record
\* in the rate limiter held timestamps
C5_Witness ==
  \E s1 \in Done : \E s2 \in Done :
    /\ slots[s1].method = "OPTIONS" /\ slots[s1].res.status = 200
    /\ slots[s2].method = "GET" /\ slots[s2].res.status = 405
    /\ slots[s1].clientIp \in DOMAIN requests
    /\ Len(requests[slots[s1].clientIp]) = maxRequests - 1

\* C6: a rate-limited POST ends with 429, RATE_LIMIT_EXCEEDED and a Retry-After
\* header whatever its body; nothing is validated, no validation errors are
\* returned and no mail is sent for it.
C6_LimitedBeforeEverything ==
  \A s \in Active :
    (slots[s].method = "POST" /\ slots[s].seen >= maxRequests) =>
      /\ slots[s].pc = "done"
      /\ slots[s].res.status = 429
      /\ slots[s].res.body.kind = "error"
      /\ slots[s].res.body.code = "RATE_LIMIT_EXCEEDED"
      /\ RetryAfter \in slots[s].res.headers
      /\ slots[s].validation = "none"
      /\ ~slots[s].res.body.hasDetails
      /\ slots[s].res.body.details = <<>>
      /\ slots[s].mailCalls = 0
      /\ slots[s].mailResult = "none"

\* a rate-limited POST that carried a body failing validation was answered 429
C6_Witness ==
  \E s \in Done :
    /\ slots[s].res.status = 429
    /\ slots[s].body = InvalidBody
    /\ slots[s].clientIp \in DOMAIN requests
    /\ Len(requests[slots[s].clientIp]) = maxRequests

\* C7: an admitted POST whose body fails validation ends with 400,
\* VALIDATION_ERROR and all the validation errors as details; no mail is sent.
C7_InvalidGives400 ==
  \A s \in AdmittedPosts :
    schemaErrors(slots[s].body) # <<>> =>
      /\ slots[s].pc = "done"
      /\ slots[s].res.status = 400
      /\ slots[s].res.body.kind = "error"
      /\ slots[s].res.body.code = "VALIDATION_ERROR"
      /\ slots[s].res.body.hasDetails
      /\ slots[s].res.body.details = schemaErrors(slots[s].body)
      /\ slots[s].mailCalls = 0
      /\ slots[s].mailResult = "none"

\* an admitted POST with three failing fields was answered with three details
C7_Witness ==
  \E s \in Done :
    /\ slots[s].rl = "admitted"
    /\ slots[s].body = InvalidBody
    /\ Len(slots[s].res.body.details) = 3

\* C8: an admitted, valid POST whose sanitized name+subject+message is spam
\* ends with 200 and a success body, and sendContactEmail is not called for it.
C8_SpamSilentlyAccepted ==
  \A s \in AdmittedPosts :
    (ValidationOf[slots[s].body].outcome = "valid" /\ SpamOf[slots[s].body]) =>
      /\ slots[s].pc = "done"
      /\ slots[s].res.status = 200
      /\ slots[s].res.body.kind = "success"
      /\ slots[s].res.body.success
      /\ slots[s].mailCalls = 0
      /\ slots[s].mailResult = "none"
      /\ slots[s].tr = 0

\* the "free money and casino" message was answered 200 while the mail service
\* had already sent another message
C8_Witness ==
  \E s \in Done :
    /\ slots[s].body = SpamBody
    /\ slots[s].res.status = 200
    /\ email.sendMailCalls = 1

\* the two runs C9 compares: valid admitted POSTs of one origin, s1 spam, s2 not
SpamPair(s1, s2) ==
  /\ s1 \in Done /\ s2 \in Done
  /\ s1 \in AdmittedPosts /\ s2 \in AdmittedPosts
  /\ slots[s1].origin = slots[s2].origin
  /\ slots[s1].validation = "valid" /\ slots[s2].validation = "valid"
  /\ slots[s1].spam = "yes" /\ slots[s2].spam = "no"
SameObservation(s1, s2) ==
  /\ slots[s1].res.status = slots[s2].res.status
  /\ slots[s1].res.headers = slots[s2].res.headers
  /\ slots[s1].res.body.kind = slots[s2].res.body.kind
  /\ slots[s1].res.body.success = slots[s2].res.body.success
  /\ slots[s1].res.body.message = slots[s2].res.body.message
  /\ slots[s1].res.body.hasDetails = slots[s2].res.body.hasDetails

\* C9 as claimed: the response to a spam submission equals that to a non-spam
\* one in status, headers, body shape and message, whatever the mail send does.
C9_IndistinguishableAlways ==
  \A s1 \in Slots : \A s2 \in Slots : SpamPair(s1, s2) => SameObservation(s1, s2)

\* C9: the response to a spam submission equals, in status, headers, body
\* shape and message, the response to a non-spam submission whose mail send
\* succeeded.
C9_IndistinguishableFromAcceptance ==
  \A s1 \in Slots : \A s2 \in Slots :
    (SpamPair(s1, s2) /\ slots[s2].mailResult = "ok") => SameObservation(s1, s2)

\* a spam submission and a delivered one of the same origin were both answered
C9_Witness ==
  \E s1 \in Slots : \E s2 \in Slots :
    /\ SpamPair(s1, s2)
    /\ slots[s2].mailResult = "ok"
    /\ slots[s1].origin = AllowedOrigin

\* C10: for an admitted, valid, non-spam POST, a failed mail send ends in 500
\* INTERNAL_SERVER_ERROR and a successful one in 200 with a success body whose
\* id is the correlation identifier that was passed to sendContactEmail.
C10_MailOutcomeDecides ==
  \A s \in AdmittedPosts :
    (slots[s].validation = "valid" /\ slots[s].spam = "no") =>
      /\ slots[s].mailCalls = 1
      /\ slots[s].mailArgs.requestId # 0
      /\ slots[s].mailResult \in {"pending", "failed", "ok"}
      /\ (slots[s].mailResult = "pending") <=> (slots[s].pc # "done")
      /\ slots[s].mailResult = "failed" =>
           /\ slots[s].res.status = 500
           /\ slots[s].res.body.kind = "error"
           /\ slots[s].res.body.code = "INTERNAL_SERVER_ERROR"
      /\ slots[s].mailResult = "ok" =>
           /\ slots[s].res.status = 200
           /\ slots[s].res.body.kind = "success"
           /\ slots[s].res.body.success
           /\ slots[s].res.body.id = slots[s].mailArgs.requestId
      /\ slots[s].mailResult = "pending" => slots[s].res = NoRes

\* one submission was delivered and answered 200, another failed and got 500
C10_Witness ==
  \E s1 \in Done : \E s2 \in Done :
    /\ slots[s1].mailResult = "ok" /\ slots[s1].res.status = 200
    /\ slots[s2].mailResult = "failed" /\ slots[s2].res.status = 500


\* admitted, valid, non-spam POSTs whose origin is on the allow-list
Genuine ==
  {s \in AdmittedPosts : /\ slots[s].validation = "valid"
                         /\ slots[s].spam = "no"
                         /\ slots[s].origin \in AllowedOrigins}
\* sendContactEmail was called exactly once for s, with the sanitized fields of
\* its body and a non-empty correlation identifier
MailedOnce(s) ==
  /\ slots[s].mailCalls = 1
  /\ slots[s].mailArgs.formData = ValidationOf[slots[s].body].sanitizedData
  /\ slots[s].mailArgs.formData.name = trim(slots[s].body.name.v)
  /\ ~Contains(slots[s].mailArgs.formData.message, <<"o","n","e","r","r","o","r">>)
  /\ slots[s].mailArgs.requestId # 0
  /\ slots[s].mailArgs.requestId = slots[s].requestId
AllowOriginPresent(s) ==
  <<"Access-Control-Allow-Origin", slots[s].origin>> \in slots[s].res.headers

\* C11 as claimed: every answered valid, non-spam, admitted POST of an
\* allow-listed origin has status 200 with Access-Control-Allow-Origin, and
\* sendContactEmail was called once with the sanitized fields and an identifier.
C11_ValidAlways200 ==
  \A s \in Genuine :
    slots[s].pc = "done" =>
      /\ slots[s].res.status = 200
      /\ AllowOriginPresent(s)
      /\ MailedOnce(s)

\* C11: for a valid, non-spam, admitted POST of an allow-listed origin
\* sendContactEmail is called exactly once, with the sanitized fields and a
\* non-empty correlation identifier; when that call succeeds the response is 200
\* with the Access-Control-Allow-Origin header.
C11_ValidMailedOnceThen200 ==
  \A s \in Genuine :
    /\ MailedOnce(s)
    /\ (slots[s].pc = "done" /\ slots[s].mailResult = "ok") =>
         /\ slots[s].res.status = 200
         /\ slots[s].res.body.kind = "success"
         /\ AllowOriginPresent(s)

\* a submission whose message carried markup was mailed and answered 200
C11_Witness ==
  \E s \in Genuine :
    /\ slots[s].pc = "done"
    /\ slots[s].mailResult = "ok"
    /\ slots[s].body = MarkupBody
    /\ slots[s].res.status = 200


\* answered requests whose declared origin is not on the allow-list
Unlisted == {s \in Done : slots[s].origin \notin AllowedOrigins}
\* the terminal outcome of s, by status and body
Outcome(s) ==
  IF slots[s].method = "OPTIONS" THEN "preflight"
  ELSE IF slots[s].res.status = 200
       THEN (IF slots[s].spam = "yes" THEN "spam" ELSE "sent")
       ELSE slots[s].res.body.code

\* C12: a request whose origin is not on the allow-list never gets an
\* Access-Control-Allow-Origin header, whichever of the outcomes it ends in
\* (preflight 200, 405, 429, 400, spam 200, sent 200, 500); it is processed all
\* the same and its success or error body is returned.
C12_UnlistedOriginNoCors ==
  \A s \in Unlisted :
    /\ "Access-Control-Allow-Origin" \notin HeaderNames(slots[s].res.headers)
    /\ slots[s].res.headers \cap getCorsHeaders(AllowedOrigin) = {}
    /\ slots[s].resSets = 1
    /\ Outcome(s) \in {"preflight", "METHOD_NOT_ALLOWED", "RATE_LIMIT_EXCEEDED",
                       "VALIDATION_ERROR", "spam", "sent", "INTERNAL_SERVER_ERROR"}
    /\ Outcome(s) = "preflight" => slots[s].res.body.kind = "null"
    /\ Outcome(s) \in {"spam", "sent"} =>
         slots[s].res.body.kind = "success" /\ slots[s].res.body.id = slots[s].requestId
    /\ Outcome(s) = "sent" => slots[s].mailResult = "ok" /\ slots[s].mailCalls = 1
    /\ Outcome(s) \notin {"preflight", "spam", "sent"} => slots[s].res.body.kind = "error"
    /\ Outcome(s) = "METHOD_NOT_ALLOWED" <=> slots[s].res.status = 405
    /\ Outcome(s) = "RATE_LIMIT_EXCEEDED" <=> slots[s].res.status = 429
    /\ Outcome(s) = "VALIDATION_ERROR" <=> slots[s].res.status = 400
    /\ Outcome(s) = "INTERNAL_SERVER_ERROR" <=> slots[s].res.status = 500

\* a submission of https://malicious-site.com was mailed and answered 200, and
\* the next request of that origin got 429
C12_Witness ==
  \E s1 \in Unlisted : \E s2 \in Unlisted :
    /\ slots[s1].origin = MaliciousOrigin /\ slots[s2].origin = MaliciousOrigin
    /\ Outcome(s1) = "sent"
    /\ Outcome(s2) = "RATE_LIMIT_EXCEEDED"


\* requests during whose handling an exception was raised: the TypeError of
\* validateContactForm, or a rejection inside sendContactEmail (secret load,
\* SMTP verify, sendMail)
Raised == {s \in Active : slots[s].validation = "throw" \/ slots[s].mailResult = "failed"}

\* C13: an exception raised while a request is handled is caught by the
\* handler's catch block: the request ends with 500 and a body that holds only
\* the code INTERNAL_SERVER_ERROR, the fixed generic message and a timestamp,
\* without details; and a 500 has no other origin.
C13_ExceptionsBecome500 ==
  /\ \A s \in Raised :
       /\ slots[s].pc = "done"
       /\ slots[s].resSets = 1
       /\ slots[s].res.status = 500
       /\ slots[s].res.body =
            ApiError("INTERNAL_SERVER_ERROR",
                     "An unexpected error occurred. Please try again later.",
                     slots[s].res.body.timestamp)
       /\ ~slots[s].res.body.hasDetails
       /\ slots[s].res.body.details = <<>>
  /\ \A s \in Done : slots[s].res.status = 500 => s \in Raised

\* one request ended in 500 after validateContactForm threw, another after the
\* mail send failed
C13_Witness ==
  \E s1 \in Raised : \E s2 \in Raised :
    /\ slots[s1].validation = "throw" /\ slots[s1].res.status = 500
    /\ slots[s2].mailResult = "failed" /\ slots[s2].res.status = 500


\* the schema's constraints on the fields, as the specification words them
NameBad(x) ==
  \/ x.t # "string"
  \/ Len(trim(x.v)) < 1
  \/ Len(trim(x.v)) > 100
  \/ \E i \in DOMAIN trim(x.v) :
       trim(x.v)[i] \notin Letters \cup Whitespace \cup {"-", "'", "."}
EmailBad(x) == x.t # "string" \/ Len(x.v) > 254 \/ ~EmailSyntaxOk(x.v)
SubjectBad(x) == x.t \notin {"undefined", "string"} \/ (x.t = "string" /\ Len(trim(x.v)) > 200)
MessageBad(x) == x.t # "string" \/ Len(trim(x.v)) < 10 \/ Len(trim(x.v)) > 5000
BadFields(data) ==
  {f \in {"name", "email", "subject", "message"} :
     \/ f = "name" /\ NameBad(data.name)
     \/ f = "email" /\ EmailBad(data.email)
     \/ f = "subject" /\ SubjectBad(data.subject)
     \/ f = "message" /\ MessageBad(data.message)}
\* a field that is absent, of another type, or empty after trimming
Missing(x) == x.t # "string" \/ trim(x.v) = <<>>
ErrorFields(errors) == {errors[i].field : i \in DOMAIN errors}
EntriesOf(errors, f) == Cardinality({i \in DOMAIN errors : errors[i].field = f})
\* validateContactForm returned for an object that has a missing or invalid field
FailedCall ==
  /\ result.op = "validateContactForm"
  /\ arg.t = "object"
  /\ BadFields(arg) # {}

\* C14 as claimed: validation of an input with missing or invalid fields fails
\* with exactly one error entry per such field.
C14_OneErrorPerField ==
  FailedCall =>
    /\ result.value.outcome = "invalid"
    /\ ErrorFields(result.value.errors) = BadFields(arg)
    /\ \A f \in BadFields(arg) : EntriesOf(result.value.errors, f) = 1

\* C14: validation of an input with missing or invalid fields fails; every such
\* field, and no other, has an error entry, whatever the fields before it: one
\* entry when the field is missing or empty, otherwise one per rule it breaks
\* (at most two); name="", email="invalid-email", message="Short" gives 3 entries.
C14_ErrorsForEveryBadField ==
  FailedCall =>
    /\ result.value.outcome = "invalid"
    /\ ErrorFields(result.value.errors) = BadFields(arg)
    /\ \A f \in BadFields(arg) :
         /\ EntriesOf(result.value.errors, f) \in {1, 2}
         /\ Missing(arg[f]) => EntriesOf(result.value.errors, f) = 1
    /\ (arg.name = Str(<<>>) /\ arg.email = Str(<<"i","n","v","a","l","i","d","-","e","m","a","i","l">>) /\ arg.subject = Undefined
        /\ arg.message = Str(<<"S","h","o","r","t">>)) => Len(result.value.errors) = 3

\* the input name="", email="invalid-email", message="Short" was validated
C14_Witness ==
  /\ FailedCall
  /\ arg.name = Str(<<>>)
  /\ arg.email = Str(<<"i","n","v","a","l","i","d","-","e","m","a","i","l">>)
  /\ arg.subject = Undefined
  /\ arg.message = Str(<<"S","h","o","r","t">>)
  /\ Len(result.value.errors) = 3


\* C15: validateContactForm returns for every value of the request body: valid
\* with sanitized data, or invalid with a non-empty sequence of errors; it never
\* throws, so an admitted POST without a body ends in 400 VALIDATION_ERROR.
C15_ValidationNeverThrows ==
  \A s \in AdmittedPosts :
    /\ slots[s].validation \in {"valid", "invalid"}
    /\ slots[s].validation = "invalid" => slots[s].errors # <<>>
    /\ slots[s].body.t # "object" =>
         /\ slots[s].pc = "done"
         /\ slots[s].res.status = 400
         /\ slots[s].res.body.code = "VALIDATION_ERROR"
         /\ slots[s].res.body.details # <<>>


\* the schema's constraints, on a sanitized submission
SatisfiesSchema(sd) ==
  /\ Len(sd.name) >= 1 /\ Len(sd.name) <= 100
  /\ \A i \in DOMAIN sd.name : sd.name[i] \in Letters \cup Whitespace \cup {"-", "'", "."}
  /\ Len(sd.email) <= 254 /\ EmailSyntaxOk(sd.email)
  /\ sd.subject.t \in {"undefined", "string"}
  /\ Len(sd.subject.v) <= 200
  /\ Len(sd.message) >= 10 /\ Len(sd.message) <= 5000

\* C16: the sanitizedData that validateContactForm returns satisfies the schema
\* constraints itself (name 1 to 100 characters of the allowed set, e-mail valid
\* and at most 254, subject at most 200, message 10 to 5000), and it is returned
\* only when all constraints passed, never partially populated.
C16_SanitizedSatisfiesSchema ==
  result.op = "validateContactForm" =>
    /\ result.value.outcome = "valid" =>
         /\ BadFields(arg) = {}
         /\ SatisfiesSchema(result.value.sanitizedData)
    /\ result.value.outcome # "valid" => result.value.sanitizedData = NoData


\* C17: a submission whose name holds a script element, with a valid e-mail and
\* message, is accepted by validateContactForm, and its sanitized name does not
\* contain "<script>".
C17_ScriptNameAccepted ==
  (/\ result.op = "validateContactForm"
   /\ arg.t = "object"
   /\ arg.name = Str(ScriptName)
   /\ ~EmailBad(arg.email) /\ ~SubjectBad(arg.subject) /\ ~MessageBad(arg.message)) =>
    /\ result.value.outcome = "valid"
    /\ ~Contains(result.value.sanitizedData.name, <<"<","s","c","r","i","p","t",">">>)

\* a sanitized value holds a markup tag: "<" followed by a letter or by "/"
HasTag(s) ==
  \E i \in 1..(Len(s) - 1) : s[i] = "<" /\ s[i + 1] \in Letters \cup {"/"}

\* C18: the fields of the contact form are sanitized in the no-tag mode: no
\* sanitized name, e-mail, subject or message holds a markup tag, and a message
\* with an img element that has an onerror handler is returned without "<img".
C18_FieldsHoldNoTag ==
  (result.op = "validateContactForm" /\ result.value.outcome = "valid") =>
    /\ ~HasTag(result.value.sanitizedData.name)
    /\ ~HasTag(result.value.sanitizedData.email)
    /\ ~HasTag(result.value.sanitizedData.subject.v)
    /\ ~HasTag(result.value.sanitizedData.message)
    /\ ~Contains(result.value.sanitizedData.message, <<"<","i","m","g">>)


\* the last two calls were calls of the same sanitizer, the second one on the
\* value the first one returned
SanitizedTwice ==
  /\ result.pass >= 2
  /\ result.op \in {"purify", "sanitizeHtml"}
  /\ result.prev = result.op

\* C19: sanitization is idempotent: purify.sanitize of a value purify.sanitize
\* returned, and sanitizeHtml of a value sanitizeHtml returned, return that value
\* unchanged.
C19_SanitizeIdempotent ==
  SanitizedTwice => result.value = result.input


\* the places of s where a URL starts: http:// or https:// at the start of the
\* text or after white space, followed by a character that is not white space
UrlStarts(s) ==
  {i \in DOMAIN s :
     \E p \in {<<"h","t","t","p",":","/","/">>, <<"h","t","t","p","s",":","/","/">>} :
       /\ OccursAt(s, p, i)
       /\ (i = 1 \/ s[i - 1] \in Whitespace)
       /\ i + Len(p) <= Len(s)
       /\ s[i + Len(p)] \notin Whitespace}

\* C20: isSpam returns true for every content that holds 3 or more URLs,
\* wherever they stand and whatever separates them.
C20_ThreeUrlsAreSpam ==
  (result.op = "isSpam" /\ Cardinality(UrlStarts(arg)) >= 3) => result.value = TRUE

\* s holds the same character n times in a row
SameCharRun(s, n) ==
  \E i \in 1..Len(s) :
    /\ i + n - 1 <= Len(s)
    /\ \A j \in 1..(n - 1) : s[i + j] = s[i]

\* s holds n characters outside ASCII in a row
NonAsciiRunOf(s, n) ==
  \E i \in 1..Len(s) :
    /\ i + n - 1 <= Len(s)
    /\ \A j \in 0..(n - 1) : s[i + j] \in NonAscii

\* C21: isSpam returns true exactly when one heuristic matches: a spam keyword
\* or phrase in any letter case, three URLs in a row, the same character 11
\* or more times in a row, or 20 or more characters outside ASCII in a row.
C21_AnyMatchExactThresholds ==
  result.op = "isSpam" =>
    (result.value = (\/ WordBoundaryMatch(toLowerCase(arg), SpamWords \cup SpamPhrases)
                     \/ MultipleUrls(toLowerCase(arg))
                     \/ SameCharRun(toLowerCase(arg), 11)
                     \/ NonAsciiRunOf(arg, 20)))

\* the names of the CORS headers
CorsHeaderNames == HeaderNames(getCorsHeaders(AllowedOrigin))

\* C22: every response, on every terminal outcome, carries the fixed security
\* headers, and carries CORS headers only when the request's origin is on the
\* allow-list.
C22_SecurityHeadersAlwaysCorsWhenListed ==
  \A s \in Done :
    /\ Outcome(s) \in {"preflight", "METHOD_NOT_ALLOWED", "RATE_LIMIT_EXCEEDED",
                       "VALIDATION_ERROR", "spam", "sent", "INTERNAL_SERVER_ERROR"}
    /\ SECURITY_HEADERS \subseteq slots[s].res.headers
    /\ (HeaderNames(slots[s].res.headers) \cap CorsHeaderNames # {}) =>
         slots[s].origin \in AllowedOrigins

\* a preflight from a listed origin and an error answer to an unlisted one,
\* both with the security headers, the first with CORS headers, the second without
C22_Witness ==
  \E s1, s2 \in Done :
    /\ Outcome(s1) = "preflight" /\ slots[s1].origin \in AllowedOrigins
    /\ CorsHeaderNames \subseteq HeaderNames(slots[s1].res.headers)
    /\ SECURITY_HEADERS \subseteq slots[s1].res.headers
    /\ Outcome(s2) = "INTERNAL_SERVER_ERROR" /\ slots[s2].origin \notin AllowedOrigins
    /\ HeaderNames(slots[s2].res.headers) \cap CorsHeaderNames = {}
    /\ SECURITY_HEADERS \subseteq slots[s2].res.headers

\* C23: the rate limiter's map is the only state requests share: with two
\* requests in flight at once, the log records of each carry the operation
\* identifier of its own invocation, as they do when the requests run one
\* after the other.
C23_LogsCarryOwnOperationId ==
  \A s \in Slots :
    slots[s].pc # "idle" => slots[s].logOps \subseteq {slots[s].invocationId}

\* C24: every handled request, provided the mail-send call returns or fails,
\* eventually reaches exactly one terminal outcome among preflight 200, 405,
\* 429, 400, spam 200, sent 200 and 500: the response is set exactly once,
\* the mail-send collaborator is invoked at most once, and nothing is retried.
C24_EachRequestEndsOnce ==
  /\ [](\A s \in Slots :
          /\ slots[s].mailCalls <= 1
          /\ slots[s].pc \in {"secrets", "verify", "sendMail"} =>
               slots[s].resSets = 0 /\ slots[s].res = NoRes
          /\ slots[s].pc = "done" =>
               /\ slots[s].resSets = 1
               /\ Outcome(s) \in {"preflight", "METHOD_NOT_ALLOWED", "RATE_LIMIT_EXCEEDED",
                                  "VALIDATION_ERROR", "spam", "sent",
                                  "INTERNAL_SERVER_ERROR"})
  /\ \A s \in Slots :
       (slots[s].pc \in {"secrets", "verify", "sendMail"}) ~> (slots[s].pc = "done")

\* a request that was suspended on the mail send has been answered, its
\* response set once and the collaborator invoked once
C24_Witness ==
  \E s \in Done :
    /\ slots[s].mailResult = "ok"
    /\ slots[s].mailCalls = 1
    /\ slots[s].resSets = 1

\* C25: every POST that passes the rate-limit check consumes one of its
\* client's 5 places whatever happens next (validation failure, spam, failed
\* or successful mail send): its timestamp joins the client's record and no
\* later step takes it back, so a POST of a client with 5 such requests in the
\* window gets 429 even when it is a valid submission.
C25_AdmittedPostConsumesPlace ==
  [][/\ \A s \in Slots :
          (nextId' # nextId /\ slots'[s].requestId = nextId /\ slots'[s].method = "POST") =>
            LET c == slots'[s].clientIp
                before == Recent(requestTimes(requests, c), now)
            IN /\ Len(before) < maxRequests =>
                    /\ slots'[s].rl = "admitted"
                    /\ slots'[s].validation \in {"invalid", "valid", "throw"}
                    /\ requests'[c] = Append(before, now)
               /\ Len(before) >= maxRequests =>
                    /\ slots'[s].pc = "done"
                    /\ slots'[s].res.status = 429
                    /\ slots'[s].validation = "none"
                    /\ requests' = requests
     /\ nextId' = nextId => requests' = requests]_vars

\* five POSTs of a client inside one window, none of which got as far as the
\* mail send, and a valid sixth one that was answered 429
C25_Witness ==
  \E s \in Done :
    /\ slots[s].body = ValidBody
    /\ slots[s].res.status = 429
    /\ Len(Recent(requestTimes(requests, slots[s].clientIp), slots[s].recvAt)) = maxRequests
    /\ email = EmailInit(FALSE, TRUE)

\* C26: the lockout is bounded by the 900 seconds of Retry-After: when a
\* client was answered 429 at time T and no request came in between, its next
\* POST at any time from T plus 15 minutes on passes the rate-limit check; a
\* rejected request records no timestamp, so it never extends the lockout.
C26_LockoutEndsAfterWindow ==
  [][\A s \in Slots :
       (nextId' # nextId /\ slots'[s].requestId = nextId /\ slots'[s].method = "POST") =>
         /\ \A p \in Done :
              (/\ slots[p].requestId = nextId - 1
               /\ slots[p].res.status = 429
               /\ slots[p].clientIp = slots'[s].clientIp
               /\ RetryAfter \in slots[p].res.headers
               /\ now >= slots[p].recvAt + 900 * 1000)
                => slots'[s].rl = "admitted"
         /\ slots'[s].res.status = 429 => requests' = requests]_vars

\* a POST that came 15 minutes after its client's 429, with no request in
\* between, passed the rate-limit check
C26_Witness ==
  \E p \in Done : \E s \in Active :
    /\ slots[p].res.status = 429
    /\ slots[s].requestId = slots[p].requestId + 1
    /\ slots[s].clientIp = slots[p].clientIp
    /\ slots[s].method = "POST"
    /\ slots[s].recvAt = slots[p].recvAt + windowMs
    /\ slots[s].rl = "admitted"

\* C27: in every reachable state of the rate limiter each identifier's record
\* holds at most 5 timestamps in non-decreasing order, getRemainingRequests(id)
\* lies in 0..5, isRateLimited(id) would return true exactly when
\* getRemainingRequests(id) is 0, and a call on one identifier never changes
\* the record of another.
C27_LimiterInvariant ==
  /\ [](\A id \in Clients :
          /\ Len(requestTimes(requests, id)) <= 5
          /\ \A i, j \in DOMAIN requestTimes(requests, id) :
               i <= j => requestTimes(requests, id)[i] <= requestTimes(requests, id)[j]
          /\ getRemainingRequests(requests, id, now) \in 0..5
          /\ isRateLimited(requests, id, now) <=> getRemainingRequests(requests, id, now) = 0)
  /\ [][handled' # handled =>
          \A o \in Clients \ {ret'.identifier} :
            requestTimes(requests', o) = requestTimes(requests, o)]_vars

\* one identifier is refused on a full record of timestamps of different
\* times while the other identifier has a record with places left
C27_Witness ==
  \E id \in Clients : \E o \in Clients \ {id} :
    /\ ret.op = "isRateLimited" /\ ret.identifier = id /\ ret.limited
    /\ Len(requestTimes(requests, id)) = 5
    /\ requestTimes(requests, id)[1] < requestTimes(requests, id)[5]
    /\ getRemainingRequests(requests, id, now) = 0
    /\ Len(requestTimes(requests, o)) > 0
    /\ getRemainingRequests(requests, o, now) > 0

\* C28: the email service never calls sendMail on a transporter whose verify()
\* has not succeeded: after a verification failure the next send attempt
\* verifies the connection again before it sends.
C28_SendsOnlyOnVerifiedTransporter ==
  /\ ~email.sentUnverified
  /\ \A s \in Slots : slots[s].pc = "sendMail" => slots[s].tr \in email.verified

====
